---- MODULE Spec2Model ----
(***************************************************************************)
(* Model of Lib/sandbox/models/formula.py: the Term / Factor / Formula     *)
(* algebra, Formula evaluation, Factor.main_effect, isnested and the       *)
(* Term call protocol.                                                      *)
(*                                                                         *)
(* A Python string is the sequence of its character codes, so that         *)
(* comparison, '*'-splitting, sorting and joining are computed as Python   *)
(* computes them.  A numpy array is a record [nd, rows]: nd is its number  *)
(* of dimensions (0, 1 or 2) and rows its contents as a sequence of rows   *)
(* (a 0-d or 1-d array has exactly one row).                               *)
(***************************************************************************)
EXTENDS Integers, Sequences, FiniteSets, TLC

VARIABLES terms, last, ev, fac, nest, objs, stack, res

vars == <<terms, last, ev, fac, nest, objs, stack, res>>

(***************************************************************************)
(* Bounds of the model.                                                    *)
(***************************************************************************)
\* longest term list an operator result may have
MaxTerms == 2
\* most '*'-separated pieces of a termname built by multiplication
MaxPieces == 2

(***************************************************************************)
(* Strings.                                                                *)
(***************************************************************************)
\* '*'
STAR == <<42>>
\* 'intercept'
INTERCEPT == <<105, 110, 116, 101, 114, 99, 101, 112, 116>>
\* 'a', 'f' : the caller's variable names
NameA == <<97>>
NameF == <<102>>
\* 'x', 'y' : levels of the factor f
KeyX == <<120>>
KeyY == <<121>>
\* 'hi', 'lo', 'mid'
HI == <<104, 105>>
LO == <<108, 111>>
MID == <<109, 105, 100>>

Max(a, b) == IF a >= b THEN a ELSE b

\* Python's str < str: lexicographic on character codes, a proper prefix first
RECURSIVE StrLess(_, _)
StrLess(s, t) ==
    IF t = <<>> THEN FALSE
    ELSE IF s = <<>> THEN TRUE
    ELSE IF Head(s) # Head(t) THEN Head(s) < Head(t)
    ELSE StrLess(Tail(s), Tail(t))

\* Python's list < list on lists of strings
RECURSIVE ListLess(_, _)
ListLess(s, t) ==
    IF t = <<>> THEN FALSE
    ELSE IF s = <<>> THEN TRUE
    ELSE IF Head(s) # Head(t) THEN StrLess(Head(s), Head(t))
    ELSE ListLess(Tail(s), Tail(t))

\* str.split('*')
RECURSIVE Split(_)
Split(s) ==
    IF s = <<>> THEN << <<>> >>
    ELSE IF Head(s) = STAR[1] THEN << <<>> >> \o Split(Tail(s))
    ELSE LET r == Split(Tail(s)) IN << <<Head(s)>> \o Head(r) >> \o Tail(r)

\* '*'.join(pieces)
RECURSIVE Join(_)
Join(ps) ==
    IF ps = <<>> THEN <<>>
    ELSE IF Len(ps) = 1 THEN ps[1]
    ELSE ps[1] \o STAR \o Join(Tail(ps))

\* one step of list.sort() on strings: insert x into the sorted list s, after its equals
RECURSIVE InsertStr(_, _)
InsertStr(x, s) ==
    IF s = <<>> THEN <<x>>
    ELSE IF StrLess(x, Head(s)) THEN <<x>> \o s
    ELSE <<Head(s)>> \o InsertStr(x, Tail(s))

\* pieces.sort() on a list of strings
RECURSIVE SortStr(_)
SortStr(s) ==
    IF s = <<>> THEN <<>> ELSE InsertStr(s[Len(s)], SortStr(SubSeq(s, 1, Len(s) - 1)))

\* termname = '%s*%s' % (x, y); pieces = termname.split('*'); pieces.sort(); '*'.join(pieces)
\* the '*'-join of the two names with the sort left out
SortedJoinUnsorted(x, y) == x \o STAR \o y

SortedJoin(x, y) == Join(SortStr(Split(x \o STAR \o y)))

(***************************************************************************)
(* Terms.  name is a string or a list of strings:                          *)
(* [isList |-> FALSE, parts |-> <<s>>] is the string s.                    *)
(***************************************************************************)
StrName(s) == [isList |-> FALSE, parts |-> <<s>>]

ListName(l) == [isList |-> TRUE, parts |-> l]

\* Term.__init__: fn tells which evaluator func is attached ("none": no func)
Term(name, fn, termname) ==
    [cls |-> "Term", name |-> name, termname |-> termname, keys |-> <<>>, fn |-> fn]

\* '(%s==%s)' % (termname, str(key))
LevelName(termname, key) == <<40>> \o termname \o <<61, 61>> \o key \o <<41>>

\* self.keys = list(set(keys)); self.keys.sort()
RECURSIVE SortedKeys(_)
SortedKeys(S) ==
    IF S = {} THEN <<>>
    ELSE LET m == CHOOSE k \in S : \A o \in S \ {k} : StrLess(k, o)
         IN <<m>> \o SortedKeys(S \ {m})

\* the keys of a Factor, left in descending order
Factor_keysDescending(keyset) ==
    LET s == SortedKeys(keyset) IN [i \in 1..Len(s) |-> s[Len(s) + 1 - i]]

\* Factor.keys after Factor.__init__
Factor_keys(keyset) == SortedKeys(keyset)

\* Factor.__init__ with ordinal=False
Factor(termname, keyset) ==
    LET ks == Factor_keys(keyset)
    IN [cls |-> "Factor",
        name |-> ListName([i \in 1..Len(ks) |-> LevelName(termname, ks[i])]),
        termname |-> termname, keys |-> ks, fn |-> "factor"]

\* I = Term('intercept', func=_intercept_fn)
I == Term(StrName(INTERCEPT), "intercept", INTERCEPT)

\* x.name is 'intercept'
IsIntercept(t) == t.name = StrName(INTERCEPT)

\* Term.names
Term_names(t) == t.name.parts

\* Python 2 ordering of two name values: list < str (by type name), else by value
NameLess(n, m) ==
    IF n.isList # m.isList THEN n.isList
    ELSE IF n.isList THEN ListLess(n.parts, m.parts)
    ELSE StrLess(n.parts[1], m.parts[1])

\* ordering of the (term.name, term) tuples of Formula.__add__; terms of equal
\* name are ordered by object identity, and are equal records here
PieceLess(s, t) == NameLess(s.name, t.name)

RECURSIVE InsertTerm(_, _)
InsertTerm(x, s) ==
    IF s = <<>> THEN <<x>>
    ELSE IF PieceLess(x, Head(s)) THEN <<x>> \o s
    ELSE <<Head(s)>> \o InsertTerm(x, Tail(s))

RECURSIVE SortTerms(_)
SortTerms(s) ==
    IF s = <<>> THEN <<>> ELSE InsertTerm(s[Len(s)], SortTerms(SubSeq(s, 1, Len(s) - 1)))

(***************************************************************************)
(* Python values handed to the operators: a Term (or Factor) object t is   *)
(* [tag |-> "Term", terms |-> <<t>>], a Formula [tag |-> "Formula", ...];  *)
(* an operator's result is a Formula or the exception it raised.           *)
(***************************************************************************)
TermV(t) == [tag |-> "Term", terms |-> <<t>>]

FormulaV(ts) == [tag |-> "Formula", terms |-> ts]

Raise(e) == [tag |-> e, terms |-> <<>>]

\* Formula.__init__ on a Formula or on one Term: the term list
Formula(v) == v.terms

\* Formula.termnames
termnames(ts) == [i \in 1..Len(ts) |-> ts[i].termname]

\* Formula.names
RECURSIVE names(_)
names(ts) == IF ts = <<>> THEN <<>> ELSE Term_names(Head(ts)) \o names(Tail(ts))

\* Formula.hasterm for a Term
hasterm(ts, t) == \E i \in 1..Len(ts) : ts[i].termname = t.termname

\* Formula.__add__
Formula_add(self, other) == FormulaV(SortTerms(self \o Formula(other)))

\* Term.__add__
Term_add(self, other) == Formula_add(Formula(other), TermV(self))

\* Factor.__add__ ; other.name of a Formula raises AttributeError
Factor_add(self, other) ==
    IF other.tag = "Formula" THEN Raise("AttributeError")
    ELSE IF IsIntercept(other.terms[1]) THEN FormulaV(<<self>>)
    ELSE Term_add(self, other)

\* the names of the interaction Term of Formula.__mul__, loops over r and s
InteractionNames(sn, on) ==
    [k \in 1..(Len(sn) * Len(on)) |->
        SortedJoin(sn[((k - 1) \div Len(on)) + 1], on[((k - 1) % Len(on)) + 1])]

\* the term Formula.__mul__ builds for the pair (i, j)
PairTerm(s, o) ==
    IF IsIntercept(s) THEN o
    ELSE IF IsIntercept(o) THEN s
    ELSE Term(ListName(InteractionNames(Term_names(s), Term_names(o))), "interaction",
              SortedJoin(s.termname, o.termname))

\* Formula.__mul__: the terms list, i outer and j inner
MulTerms(self, o) ==
    [k \in 1..(Len(self) * Len(o)) |->
        PairTerm(self[((k - 1) \div Len(o)) + 1], o[((k - 1) % Len(o)) + 1])]

Formula_mul(self, other) == FormulaV(MulTerms(self, Formula(other)))

\* Term.__mul__ returning the wrong operand of the two intercept branches
Term_mulSwapped(self, other) ==
    IF other.tag = "Formula" THEN Raise("AttributeError")
    ELSE IF IsIntercept(other.terms[1]) THEN FormulaV(<<other.terms[1]>>)
    ELSE IF IsIntercept(self) THEN FormulaV(<<self>>)
    ELSE Formula_mul(Formula(other), TermV(self))

\* Term.__mul__ ; other.name of a Formula raises AttributeError
Term_mul(self, other) ==
    IF other.tag = "Formula" THEN Raise("AttributeError")
    ELSE IF IsIntercept(other.terms[1]) THEN FormulaV(<<self>>)
    ELSE IF IsIntercept(self) THEN FormulaV(<<other.terms[1]>>)
    ELSE Formula_mul(Formula(other), TermV(self))

\* the inner loop of Formula.__sub__: pop the first term named tn, if any
RECURSIVE PopFirst(_, _)
PopFirst(ts, tn) ==
    IF ts = <<>> THEN <<>>
    ELSE IF Head(ts).termname = tn THEN Tail(ts)
    ELSE <<Head(ts)>> \o PopFirst(Tail(ts), tn)

\* the outer loop of Formula.__sub__ over other.terms
RECURSIVE SubTerms(_, _)
SubTerms(ts, os) ==
    IF os = <<>> THEN ts ELSE SubTerms(PopFirst(ts, Head(os).termname), Tail(os))

\* Formula.__sub__
Formula_sub(self, other) == FormulaV(SubTerms(self, Formula(other)))

(***************************************************************************)
(* The algebra: the caller combines the module's objects with +, * and -.  *)
(* terms is the module-level registry `terms`; last is the last operator   *)
(* application: its operands and what it returned.                         *)
(***************************************************************************)
\* the caller's objects: I, Term('a'), Factor('f', ['x', 'y'])
TermA == Term(StrName(NameA), "none", NameA)

FactorF == Factor(NameF, {KeyX, KeyY})

Base == {I, TermA, FactorF}

\* namespace[self.termname] = self, the last line of Term.__init__
Register(reg, t) ==
    [n \in DOMAIN reg \cup {t.termname} |-> IF n = t.termname THEN t ELSE reg[n]]

RECURSIVE RegisterAll(_, _)
RegisterAll(reg, ts) ==
    IF ts = <<>> THEN reg ELSE RegisterAll(Register(reg, Head(ts)), Tail(ts))

\* the Terms that Formula.__mul__ constructs, in the order of construction
Constructed(self, o) ==
    LET all == [k \in 1..(Len(self) * Len(o)) |->
                  <<self[((k - 1) \div Len(o)) + 1], o[((k - 1) % Len(o)) + 1]>>]
        new(p) == ~IsIntercept(p[1]) /\ ~IsIntercept(p[2])
        sel == SelectSeq(all, new)
    IN [k \in 1..Len(sel) |-> PairTerm(sel[k][1], sel[k][2])]

\* the registry after Term.__mul__ / Formula.__mul__ returned r
AfterMul(reg, self, other, r) ==
    IF r.tag = "Formula" /\ r.terms = MulTerms(self, Formula(other))
    THEN RegisterAll(reg, Constructed(self, Formula(other)))
    ELSE reg

IsFormula(v) == v.tag = "Formula"

IsTermObj(v) == v.tag = "Term"

\* what the caller can hand to an operator: its objects and the last result
Operands == {TermV(t) : t \in Base} \cup (IF IsFormula(last.res) THEN {last.res} ELSE {})

\* the bounds: a result is kept only while it is small
Small(r) ==
    /\ Len(r.terms) <= MaxTerms
    /\ \A i \in 1..Len(r.terms) : Len(Split(r.terms[i].termname)) <= MaxPieces

InitTerms == RegisterAll(<<>>, <<I, TermA, FactorF>>)

NoOp == [op |-> "none", a |-> Raise("none"), b |-> Raise("none"), res |-> Raise("none")]

Idle == "idle"

Init ==
    /\ terms = InitTerms
    /\ last = NoOp
    /\ ev = Idle /\ fac = Idle /\ nest = Idle /\ objs = {} /\ stack = <<>> /\ res = Idle

Others == <<ev, fac, nest, objs, stack, res>>

\* Formula(A) of one Term or Factor A
FormulaInit ==
    \E A \in Operands :
        /\ IsTermObj(A)
        /\ last' = [op |-> "init", a |-> A, b |-> A, res |-> FormulaV(Formula(A))]
        /\ UNCHANGED <<terms, Others>>

\* A + B with A a Formula
FormulaAdd ==
    \E A \in Operands, B \in Operands :
        /\ IsFormula(A)
        /\ LET r == Formula_add(A.terms, B)
           IN /\ Small(r)
              /\ last' = [op |-> "add", a |-> A, b |-> B, res |-> r]
        /\ UNCHANGED <<terms, Others>>

\* A + B with A a Term that is no Factor
TermAdd ==
    \E A \in Operands, B \in Operands :
        /\ IsTermObj(A) /\ A.terms[1].cls = "Term"
        /\ LET r == Term_add(A.terms[1], B)
           IN /\ Small(r)
              /\ last' = [op |-> "add", a |-> A, b |-> B, res |-> r]
        /\ UNCHANGED <<terms, Others>>

\* A + B with A a Factor
FactorAdd ==
    \E A \in Operands, B \in Operands :
        /\ IsTermObj(A) /\ A.terms[1].cls = "Factor"
        /\ LET r == Factor_add(A.terms[1], B)
           IN /\ Small(r)
              /\ last' = [op |-> "add", a |-> A, b |-> B, res |-> r]
        /\ UNCHANGED <<terms, Others>>

\* A * B with A a Term or a Factor
TermMul ==
    \E A \in Operands, B \in Operands :
        /\ IsTermObj(A)
        /\ LET r == Term_mul(A.terms[1], B)
           IN /\ Small(r)
              /\ last' = [op |-> "mul", a |-> A, b |-> B, res |-> r]
              /\ terms' = AfterMul(terms, Formula(B), A, r)
        /\ UNCHANGED Others

\* A * B with A a Formula
FormulaMul ==
    \E A \in Operands, B \in Operands :
        /\ IsFormula(A)
        /\ LET r == Formula_mul(A.terms, B)
           IN /\ Small(r)
              /\ last' = [op |-> "mul", a |-> A, b |-> B, res |-> r]
              /\ terms' = AfterMul(terms, A.terms, B, r)
        /\ UNCHANGED Others

\* A - B with A a Formula
FormulaSub ==
    \E A \in Operands, B \in Operands :
        /\ IsFormula(A)
        /\ last' = [op |-> "sub", a |-> A, b |-> B, res |-> Formula_sub(A.terms, B)]
        /\ UNCHANGED <<terms, Others>>

Next == FormulaInit \/ FormulaAdd \/ TermAdd \/ FactorAdd \/ TermMul \/ FormulaMul \/ FormulaSub

Spec == Init /\ [][Next]_vars

(***************************************************************************)
(* Multiplication as a function of its operands: the operands are drawn    *)
(* at the start and one application of * follows.                          *)
(***************************************************************************)
\* longest term list of an operand of *
MaxLen == 2

\* 'b'
NameB == <<98>>

TermB == Term(StrName(NameB), "none", NameB)

\* the interaction Term of Term('a') * Factor f, built by an earlier product
TermAF == PairTerm(TermA, FactorF)

MulBase == {I, TermA, TermB, FactorF, TermAF}

\* the lists of at most n elements of S
Lists(S, n) == UNION {[1..k -> S] : k \in 0..n}

MulOperands == {TermV(t) : t \in MulBase} \cup {FormulaV(l) : l \in Lists(MulBase, MaxLen)}

Args(A, B) == [op |-> "args", a |-> A, b |-> B, res |-> Raise("none")]

InitMul ==
    /\ terms = RegisterAll(<<>>, <<I, TermA, TermB, FactorF, TermAF>>)
    /\ last \in {Args(A, B) : A \in MulOperands, B \in MulOperands}
    /\ ev = Idle /\ fac = Idle /\ nest = Idle /\ objs = {} /\ stack = <<>> /\ res = Idle

\* a * b with a a Term or a Factor
CallTermMul ==
    /\ last.op = "args" /\ IsTermObj(last.a)
    /\ LET r == Term_mul(last.a.terms[1], last.b)
       IN /\ last' = [last EXCEPT !.op = "mul", !.res = r]
          /\ terms' = AfterMul(terms, Formula(last.b), last.a, r)
    /\ UNCHANGED Others

\* a * b with a a Formula
CallFormulaMul ==
    /\ last.op = "args" /\ IsFormula(last.a)
    /\ LET r == Formula_mul(last.a.terms, last.b)
       IN /\ last' = [last EXCEPT !.op = "mul", !.res = r]
          /\ terms' = AfterMul(terms, last.a.terms, last.b, r)
    /\ UNCHANGED Others

NextMul == CallTermMul \/ CallFormulaMul

SpecMul == InitMul /\ [][NextMul]_vars

(***************************************************************************)
(* Arrays and evaluation.  A call returns [tag, val]: tag "array" with the *)
(* array val, tag "list" with a Python list of arrays, or the name of the   *)
(* exception raised.                                                        *)
(***************************************************************************)
Arr(nd, rows) == [nd |-> nd, rows |-> rows]

Ok(a) == [tag |-> "array", val |-> a]

Err(e) == [tag |-> e, val |-> Arr(0, <<>>)]

\* N.ones((1, n)) as a row
Ones(n) == [i \in 1..n |-> 1]

\* N.asarray of a list of n numbers: shape (n,)
Vector(l) == Arr(1, <<l>>)

\* N.squeeze: every axis of length 1 is removed
Squeeze(a) ==
    IF a.nd = 2 THEN
        IF Len(a.rows) = 1 /\ Len(a.rows[1]) = 1 THEN Arr(0, a.rows)
        ELSE IF Len(a.rows) = 1 THEN Arr(1, a.rows)
        ELSE IF \A i \in 1..Len(a.rows) : Len(a.rows[i]) = 1
             THEN Arr(1, <<[i \in 1..Len(a.rows) |-> a.rows[i][1]]>>)
        ELSE a
    ELSE IF a.nd = 1 /\ Len(a.rows[1]) = 1 THEN Arr(0, a.rows)
    ELSE a

\* the func of a non-ordinal Factor: one indicator row per key, N.array(value)
Indicator(keys, v) ==
    Arr(2, [k \in 1..Len(keys) |-> [i \in 1..Len(v) |-> IF v[i] = keys[k] THEN 1 ELSE 0]])

\* Term.__call__ on a namespace of raw value sequences, usefn=True
Term_call(t, ns) ==
    IF t.fn = "none" THEN Squeeze(Vector(ns[t.termname]))
    ELSE IF t.fn = "intercept" THEN Squeeze(Arr(2, <<Ones(1)>>))
    ELSE Squeeze(Indicator(t.keys, ns[t.termname]))

\* the loop of Formula.__call__: the values collected in allvals
RECURSIVE Collect(_, _)
Collect(ts, ns) ==
    IF ts = <<>> THEN <<>>
    ELSE LET val == Term_call(Head(ts), ns)
         IN (IF Head(ts).termname = INTERCEPT THEN <<>>
             ELSE IF val.nd = 1 THEN <<Arr(2, val.rows)>>
             ELSE <<val>>) \o Collect(Tail(ts), ns)

RECURSIVE StackRows(_)
StackRows(blocks) ==
    IF blocks = <<>> THEN <<>> ELSE Head(blocks).rows \o StackRows(Tail(blocks))

\* N.concatenate(allvals) along the first axis
Concatenate(blocks) ==
    IF blocks = <<>> THEN Err("ValueError")
    ELSE IF \E i \in 1..Len(blocks) : blocks[i].nd # 2 THEN Err("ValueError")
    ELSE IF \E i \in 1..Len(blocks) :
                Len(blocks[i].rows[1]) # Len(blocks[1].rows[1]) THEN Err("ValueError")
    ELSE Ok(Arr(2, StackRows(blocks)))

\* Formula.__call__
Formula_call(ts, ns, nrow) ==
    LET allvals == Collect(ts, ns)
        intercept == \E i \in 1..Len(ts) : ts[i].termname = INTERCEPT
        cat == Concatenate(allvals)
    IN IF ~intercept THEN (IF cat.tag = "array" THEN cat ELSE [tag |-> "list", val |-> allvals])
       ELSE IF allvals # <<>> THEN
            (IF cat.tag # "array" THEN cat
             ELSE Ok(Arr(2, <<Ones(Len(cat.val.rows[1]))>> \o cat.val.rows)))
       ELSE IF nrow <= 1 THEN Err("ValueError")
       ELSE Ok(Arr(2, Squeeze(Arr(2, <<Ones(nrow)>>)).rows))

\* Formula.termcolumns(term): the offsets of term's names in self._names
termcolumns(ts, t) ==
    IF hasterm(ts, t)
    THEN {CHOOSE k \in 1..Len(names(ts)) :
              /\ names(ts)[k] = Term_names(t)[n]
              /\ \A j \in 1..(k - 1) : names(ts)[j] # Term_names(t)[n]
          : n \in 1..Len(Term_names(t))}
    ELSE {}

(***************************************************************************)
(* Evaluation of a Formula: the Formula, the namespace and nrow are drawn  *)
(* at the start, and the Formula is called once.                           *)
(***************************************************************************)
\* longest term list of an evaluated Formula
MaxEvTerms == 3
\* most observations in a namespace
MaxObs == 2
\* largest nrow handed to the call
MaxNrow == 3

\* the raw values of the variables: numbers for a, levels for f
Namespaces ==
    UNION {[a : [1..n -> {2, 3}], f : [1..n -> {KeyX, KeyY}]] : n \in 1..MaxObs}

\* namespace[name]
Lookup(ns, name) == IF name = NameA THEN ns.a ELSE ns.f

InitEval ==
    /\ terms = InitTerms
    /\ ev \in [f : Lists(Base, MaxEvTerms), ns : Namespaces, nrow : (-1)..MaxNrow,
               out : {[tag |-> "pending", val |-> Arr(0, <<>>)]}]
    /\ last = NoOp /\ fac = Idle /\ nest = Idle /\ objs = {} /\ stack = <<>> /\ res = Idle

\* f(namespace=ns, nrow=nrow)
CallFormula ==
    /\ ev.out.tag = "pending"
    /\ ev' = [ev EXCEPT !.out = Formula_call(ev.f, [n \in {NameA, NameF} |-> Lookup(ev.ns, n)],
                                             ev.nrow)]
    /\ UNCHANGED <<terms, last, fac, nest, objs, stack, res>>

NextEval == CallFormula

SpecEval == InitEval /\ [][NextEval]_vars

(***************************************************************************)
(* Factor.main_effect: the keys, the raw values and the reference are      *)
(* drawn at the start; the main-effect Term is built, then called.         *)
(***************************************************************************)
\* most observations of the factor
MaxVals == 3
\* largest reference handed to main_effect
MaxRef == 2

\* '-' and ':maineffect'
DASH == <<45>>

MAINEFFECT == <<58, 109, 97, 105, 110, 101, 102, 102, 101, 99, 116>>

Levels == {HI, LO, MID}

\* keep = range(n); keep.pop(reference), as 1-based positions
Keep(n, reference) == [i \in 1..(n - 1) |-> IF i <= reference THEN i ELSE i + 1]

\* the Term that main_effect returns
Factor_main_effect(self, reference) ==
    LET nm == Term_names(self)
        keep == Keep(Len(nm), reference)
    IN Term(ListName([i \in 1..Len(keep) |-> nm[keep[i]] \o DASH \o nm[reference + 1]]),
            "maineffect", self.termname \o MAINEFFECT)

\* the func of the main-effect Term on the Factor's squeezed value, then
\* N.asarray of the list it returns
MainEffectFunc(value, reference) ==
    IF value.nd = 2
    THEN Arr(2, [i \in 1..(Len(value.rows) - 1) |->
                   [c \in 1..Len(value.rows[1]) |->
                       value.rows[Keep(Len(value.rows), reference)[i]][c]
                           - value.rows[reference + 1][c]]])
    ELSE LET v == value.rows[1]
         IN Arr(1, <<[i \in 1..(Len(v) - 1) |-> v[Keep(Len(v), reference)[i]] - v[reference + 1]]>>)

\* calling the main-effect Term: Term.__call__ around func
MainEffect_call(self, reference, v) ==
    LET value == Squeeze(Indicator(self.keys, v))
        n == IF value.nd = 2 THEN Len(value.rows) ELSE Len(value.rows[1])
    IN IF value.nd = 0 THEN Err("IndexError")
       ELSE IF reference >= n THEN Err("IndexError")
       ELSE Ok(Squeeze(MainEffectFunc(value, reference)))

InitFactor ==
    /\ fac \in [keys : (SUBSET Levels) \ {{}},
                vals : UNION {[1..n -> Levels] : n \in 1..MaxVals},
                ref : 0..MaxRef,
                stage : {"new"}, me : {Term(ListName(<<>>), "none", <<>>)},
                out : {[tag |-> "pending", val |-> Arr(0, <<>>)]}]
    /\ terms = RegisterAll(<<>>, <<I, Factor(NameF, fac.keys)>>)
    /\ last = NoOp /\ ev = Idle /\ nest = Idle /\ objs = {} /\ stack = <<>> /\ res = Idle

\* me = f.main_effect(reference=ref); keep.pop raises IndexError past the last key
MainEffect ==
    /\ fac.stage = "new"
    /\ IF fac.ref >= Cardinality(fac.keys)
       THEN /\ fac' = [fac EXCEPT !.stage = "failed", !.out = Err("IndexError")]
            /\ UNCHANGED terms
       ELSE LET me == Factor_main_effect(Factor(NameF, fac.keys), fac.ref)
            IN /\ fac' = [fac EXCEPT !.stage = "built", !.me = me]
               /\ terms' = Register(terms, me)
    /\ UNCHANGED <<last, ev, nest, objs, stack, res>>

\* me(namespace={'f': vals})
CallMainEffect ==
    /\ fac.stage = "built"
    /\ fac' = [fac EXCEPT !.stage = "called",
                          !.out = MainEffect_call(Factor(NameF, fac.keys), fac.ref, fac.vals)]
    /\ UNCHANGED <<terms, last, ev, nest, objs, stack, res>>

NextFactor == MainEffect \/ CallMainEffect

SpecFactor == InitFactor /\ [][NextFactor]_vars

(***************************************************************************)
(* isnested: the raw values of A and of B are drawn at the start.  An      *)
(* observation is a label, a string.                                       *)
(***************************************************************************)
\* most observations of A and of B
MaxNest == 3

\* 'x', 'y', 'xy'
Labels == {KeyX, KeyY, KeyX \o KeyY}

\* the set of the elements of a sequence
Range(s) == {s[i] : i \in DOMAIN s}

\* A(namespace, values=True)[0]: element 0 of the squeezed array of raw values
First(v) ==
    IF Squeeze(Vector(v)).nd = 0 \/ v = <<>> THEN Err("IndexError")
    ELSE [tag |-> "str", val |-> v[1]]

\* isnested(A, B, namespace)
isnested(va, vb) ==
    LET a == First(va)
        b == First(vb)
    IN IF a.tag # "str" THEN [ok |-> FALSE, F |-> a.tag]
       ELSE IF b.tag # "str" THEN [ok |-> FALSE, F |-> b.tag]
       ELSE IF Len(a.val) # Len(b.val) THEN [ok |-> FALSE, F |-> "ValueError"]
       ELSE LET nA == Cardinality(Range(a.val))
                nB == Cardinality(Range(b.val))
                nAB == Cardinality({<<a.val[i], b.val[i]>> : i \in 1..Len(a.val)})
            IN IF nAB = Max(nA, nB)
               THEN [ok |-> TRUE, F |-> IF nA > nB THEN "A" ELSE "B"]
               ELSE [ok |-> FALSE, F |-> "None"]

InitNest ==
    /\ nest \in [a : Lists(Labels, MaxNest), b : Lists(Labels, MaxNest),
                 out : {[ok |-> FALSE, F |-> "pending"]}]
    /\ terms = InitTerms
    /\ last = NoOp /\ ev = Idle /\ fac = Idle /\ objs = {} /\ stack = <<>> /\ res = Idle

\* isnested(A, B, namespace) with namespace[A.termname] = a, namespace[B.termname] = b
CallIsNested ==
    /\ nest.out.F = "pending"
    /\ nest' = [nest EXCEPT !.out = isnested(nest.a, nest.b)]
    /\ UNCHANGED <<terms, last, ev, fac, objs, stack, res>>

NextNest == CallIsNested

SpecNest == InitNest /\ [][NextNest]_vars

(***************************************************************************)
(* The call protocol of Term.__call__, step by step.  objs are the objects *)
(* the caller has constructed, stack the active calls of Term.__call__,    *)
(* res the state of the caller's call.  A frame is the called object t,    *)
(* its namespace ("default": the registry `terms`; "data": a mapping of    *)
(* every name to a raw value sequence), usefn, and the place reached.      *)
(* A call with the object and arguments of a frame that is already active  *)
(* starts that frame's computation again: the stack is kept up to this     *)
(* repetition, the frames above the repeated one being dropped.            *)
(***************************************************************************)
\* Term('intercept'), a Term of the caller without func
PlainIntercept == Term(StrName(INTERCEPT), "none", INTERCEPT)

\* Factor('a', ['x', 'y'])
FactorA == Factor(NameA, {KeyX, KeyY})

Constructible == {TermA, FactorA, FactorF, PlainIntercept}

Frame(t, ns, usefn) == [t |-> t, ns |-> ns, usefn |-> usefn, pc |-> "enter"]

Top == stack[Len(stack)]

SetTop(f) == [stack EXCEPT ![Len(stack)] = f]

InitCall ==
    /\ terms = Register(<<>>, I)
    /\ objs = {I}
    /\ stack = <<>>
    /\ res = Idle
    /\ last = NoOp /\ ev = Idle /\ fac = Idle /\ nest = Idle

\* Term.__init__ / Factor.__init__: the object registers itself under its termname
NewTerm ==
    \E o \in Constructible :
        /\ stack = <<>>
        /\ objs' = objs \cup {o}
        /\ terms' = Register(terms, o)
        /\ UNCHANGED <<last, ev, fac, nest, stack, res>>

\* the caller calls t(namespace) or t(), with usefn (values=False) or without
Call ==
    \E t \in objs, ns \in {"default", "data"}, usefn \in BOOLEAN :
        /\ stack = <<>>
        /\ stack' = <<Frame(t, ns, usefn)>>
        /\ res' = "running"
        /\ UNCHANGED <<terms, last, ev, fac, nest, objs>>

\* the top call returns a value to its caller
ReturnValue ==
    IF Len(stack) = 1
    THEN stack' = <<>> /\ res' = "value"
    ELSE /\ stack' = [SubSeq(stack, 1, Len(stack) - 1) EXCEPT ![Len(stack) - 1].pc = "gotval"]
         /\ UNCHANGED res

\* val = namespace[self.termname], when there is no func or usefn is false
LookupStep ==
    /\ stack # <<>> /\ Top.pc = "enter"
    /\ Top.t.fn = "none" \/ ~Top.usefn
    /\ IF Top.ns = "data"
       THEN ReturnValue
       ELSE stack' = SetTop([Top EXCEPT !.pc = "invoke"]) /\ UNCHANGED res
    /\ UNCHANGED <<terms, last, ev, fac, nest, objs>>

\* val = val(**extra): the registry's entry is a Term, callable, called on the
\* default namespace
InvokeStep ==
    /\ stack # <<>> /\ Top.pc = "invoke"
    /\ LET callee == Frame(terms[Top.t.termname], "default", TRUE)
           same(k) == [stack[k] EXCEPT !.pc = "enter"] = callee
       IN IF \E k \in 1..Len(stack) : same(k)
          THEN LET k == CHOOSE j \in 1..Len(stack) : same(j)
               IN stack' = [SubSeq(stack, 1, k) EXCEPT ![k] = callee]
          ELSE stack' = Append(stack, callee)
    /\ UNCHANGED <<terms, last, ev, fac, nest, objs, res>>

\* val = self.func(namespace=namespace, **extra)
FuncStep ==
    /\ stack # <<>> /\ Top.pc = "enter"
    /\ Top.t.fn # "none" /\ Top.usefn
    /\ IF Top.t.fn = "factor" /\ Top.ns = "default"
       THEN stack' = <<>> /\ res' = "AttributeError"
       ELSE ReturnValue
    /\ UNCHANGED <<terms, last, ev, fac, nest, objs>>

\* val = N.asarray(val); return N.squeeze(val), after the called value returned
ReturnStep ==
    /\ stack # <<>> /\ Top.pc = "gotval"
    /\ ReturnValue
    /\ UNCHANGED <<terms, last, ev, fac, nest, objs>>

Step == LookupStep \/ InvokeStep \/ FuncStep \/ ReturnStep

NextCall == NewTerm \/ Call \/ LookupStep \/ InvokeStep \/ FuncStep \/ ReturnStep

SpecCall == InitCall /\ [][NextCall]_vars

\* the interpreter always takes the next step of a running call
FairSpecCall == SpecCall /\ WF_vars(Step)

(***************************************************************************)
(* Claims about the algebra.                                               *)
(***************************************************************************)
NoIntercept(ts) == \A i \in 1..Len(ts) : ~IsIntercept(ts[i])

Count(s, e) == Cardinality({k \in DOMAIN s : s[k] = e})

SameBag(s, t) == Len(s) = Len(t) /\ \A k \in DOMAIN s : Count(s, s[k]) = Count(t, s[k])

Distinct(s) == \A i, j \in DOMAIN s : s[i] = s[j] => i = j

\* T is the '*'-join of the alphabetically sorted pieces of x and of y
IsCanonical(T, x, y) ==
    LET ps == Split(T)
    IN /\ \A k \in 1..(Len(ps) - 1) : ~StrLess(ps[k + 1], ps[k])
       /\ SameBag(ps, Split(x) \o Split(y))
       /\ T = Join(ps)

\* A + B as Python dispatches it on the class of A
PyAdd(A, B) ==
    IF IsFormula(A) THEN Formula_add(A.terms, B)
    ELSE IF A.terms[1].cls = "Factor" THEN Factor_add(A.terms[1], B)
    ELSE Term_add(A.terms[1], B)

\* C1: addition is commutative up to term ordering: whenever A + B and B + A
\* both return a Formula, the two have the same termnames().
C1_AddCommutes ==
    (last.op = "add" /\ IsFormula(last.res) /\ IsFormula(PyAdd(last.b, last.a)))
        => termnames(last.res.terms) = termnames(PyAdd(last.b, last.a).terms)

\* C2: for a non-intercept Term or Factor A, A * I and I * A both return a
\* Formula whose term list is exactly [A].
C2_InterceptAbsorbed ==
    (last.op = "mul" /\ IsTermObj(last.a) /\ IsTermObj(last.b)) =>
        LET x == last.a.terms[1]
            y == last.b.terms[1]
        IN /\ (y = I /\ ~IsIntercept(x)) => last.res = FormulaV(<<x>>)
           /\ (x = I /\ ~IsIntercept(y)) => last.res = FormulaV(<<y>>)

C2_Witness ==
    /\ last.op = "mul" /\ last.a = TermV(I) /\ last.b = TermV(FactorF)
    /\ last.res = FormulaV(<<FactorF>>)

\* the terms of F that F - G keeps according to the claim
Kept(F, G) ==
    LET keep(t) == \A j \in 1..Len(G) : G[j].termname # t.termname
    IN SelectSeq(F, keep)

\* C3: F - G holds, in their original order, exactly the terms of F whose
\* termname is the termname of no term of G.
C3_SubRemovesAll ==
    last.op = "sub" => last.res.terms = Kept(last.a.terms, Formula(last.b))

\* C4: for Formulas F and G without intercept term, F * G has one term per
\* pair (i, j), named by the '*'-join of the sorted pieces of the two
\* termnames, and F * G and G * F have the same multiset of termnames.
C4_MulPairs ==
    (last.op = "mul" /\ IsFormula(last.a) /\ IsFormula(last.b)
        /\ NoIntercept(last.a.terms) /\ NoIntercept(last.b.terms)) =>
        LET F == last.a.terms
            G == last.b.terms
            R == last.res.terms
        IN /\ IsFormula(last.res)
           /\ Len(R) = Len(F) * Len(G)
           /\ \A i \in 1..Len(F), j \in 1..Len(G) :
                 IsCanonical(R[(i - 1) * Len(G) + j].termname, F[i].termname, G[j].termname)
           /\ SameBag(termnames(R), termnames(Formula_mul(G, last.a).terms))

C4_Witness ==
    /\ last.op = "mul"
    /\ last.a = FormulaV(<<FactorF, TermB>>) /\ last.b = FormulaV(<<TermAF>>)
    /\ termnames(last.res.terms) = <<NameA \o STAR \o NameF \o STAR \o NameF,
                                      NameA \o STAR \o NameB \o STAR \o NameF>>

\* C9: every Formula the operators return has pairwise distinct termnames.
C9_TermnamesUnique == IsFormula(last.res) => Distinct(termnames(last.res.terms))

\* C10: a call of a Term or Factor terminates, with a value or an error.
C10_CallTerminates == [](res = "running" => <>(res # "running"))

(***************************************************************************)
(* Claims about evaluation.                                                *)
(***************************************************************************)
Called == fac.stage = "called"

C5_Case == fac.keys = {LO, HI} /\ fac.vals = <<LO, HI, LO>> /\ fac.ref = 0

\* the indicator row of level key over the observations v
IndicatorRow(key, v) == [i \in 1..Len(v) |-> IF v[i] = key THEN 1 ELSE 0]

\* C5 as amended: with keys {"lo","hi"}, values ["lo","hi","lo"] and
\* reference 0, the reference is 'hi', the first key in sorted order, and
\* the main effect evaluates to the 'lo' indicator row minus the 'hi'
\* indicator row, [1, -1, 1], labelled '(f==lo)-(f==hi)'.
C5_MainEffectLoMinusHi ==
    (Called /\ C5_Case) =>
        /\ fac.out = Ok(Arr(1, << <<1, -1, 1>> >>))
        /\ fac.out.val.rows[1] =
              [i \in 1..3 |-> IndicatorRow(LO, fac.vals)[i] - IndicatorRow(HI, fac.vals)[i]]
        /\ Term_names(fac.me) = <<LevelName(NameF, LO) \o DASH \o LevelName(NameF, HI)>>

C5_Witness == Called /\ C5_Case /\ fac.out.tag = "array"

\* C5 as stated: the main effect evaluates to the 'hi' indicator row minus
\* the 'lo' indicator row, [-1, 1, -1].
C5_MainEffectHiMinusLo ==
    (Called /\ C5_Case) => fac.out = Ok(Arr(1, << <<-1, 1, -1>> >>))

\* the values of the column labelled name: the intercept's ones, the raw
\* values of a, the indicator of a level of f
ColumnValues(name, ns) ==
    IF name = INTERCEPT THEN Ones(Len(ns.a))
    ELSE IF name = NameA THEN ns.a
    ELSE IF name = LevelName(NameF, KeyX) THEN IndicatorRow(KeyX, ns.f)
    ELSE IndicatorRow(KeyY, ns.f)

\* C6: on a namespace of at least two observations, a Formula that evaluates
\* to a matrix has one row per name of names(), row k holding the values of
\* the column names()[k], so that termcolumns(t) indexes the rows of t.
C6_NamesMatchRows ==
    (ev.out.tag = "array" /\ Len(ev.ns.a) >= 2) =>
        LET rows == ev.out.val.rows
            nm == names(ev.f)
        IN /\ Len(rows) = Len(nm)
           /\ \A k \in 1..Len(nm) : rows[k] = ColumnValues(nm[k], ev.ns)
           /\ \A i \in 1..Len(ev.f) : \A k \in termcolumns(ev.f, ev.f[i]) :
                 \E n \in 1..Len(Term_names(ev.f[i])) :
                     rows[k] = ColumnValues(Term_names(ev.f[i])[n], ev.ns)

HasIntercept(ts) == \E i \in 1..Len(ts) : ts[i].termname = INTERCEPT

OnlyIntercept(ts) == ts # <<>> /\ \A i \in 1..Len(ts) : ts[i].termname = INTERCEPT

\* C7: a Formula of intercept terms only fails with ValueError when
\* nrow <= 1 and returns one row of nrow ones when nrow >= 2; with a
\* non-intercept term beside the intercept, the call returns, whatever nrow
\* is, one row of ones as wide as the other rows, followed by those rows.
C7_InterceptRow ==
    ev.out.tag # "pending" =>
        /\ (OnlyIntercept(ev.f) /\ ev.nrow <= 1) => ev.out.tag = "ValueError"
        /\ (OnlyIntercept(ev.f) /\ ev.nrow >= 2) => ev.out = Ok(Arr(2, <<Ones(ev.nrow)>>))
        /\ (HasIntercept(ev.f) /\ ~OnlyIntercept(ev.f)) =>
              /\ ev.out.tag = "array"
              /\ Len(ev.out.val.rows) >= 2
              /\ ev.out.val.rows[1] = Ones(Len(ev.out.val.rows[2]))
              /\ \A k \in 2..Len(ev.out.val.rows) :
                    Len(ev.out.val.rows[k]) = Len(ev.out.val.rows[1])

\* the number of distinct pairs (a[i], b[i]) over the observations
DistinctPairs(a, b) == Cardinality({<<a[i], b[i]>> : i \in 1..Len(a)})

\* C8: on observation sequences of equal length (two observations or more),
\* isnested returns (True, F) exactly when the number of distinct pairs
\* equals the larger number of distinct values, F being A if A has strictly
\* more distinct values and B otherwise, and (False, None) in every other case.
C8_IsNested ==
    (nest.out.F # "pending" /\ Len(nest.a) = Len(nest.b) /\ Len(nest.a) >= 2) =>
        LET nA == Cardinality(Range(nest.a))
            nB == Cardinality(Range(nest.b))
        IN IF DistinctPairs(nest.a, nest.b) = Max(nA, nB)
           THEN nest.out = [ok |-> TRUE, F |-> IF nA > nB THEN "A" ELSE "B"]
           ELSE nest.out = [ok |-> FALSE, F |-> "None"]

====
